---- MODULE Spec2Model ----
(***************************************************************************)
(* A model of connect4player.py: the Rack board model (spaces, quartets,   *)
(* static evaluation, successor generation), Rack.negamax as a machine     *)
(* with an explicit call stack and an object heap, and                     *)
(* ComputerPlayer.pick_move.                                               *)
(*                                                                         *)
(* Scores are kept in tenths so that the source's 0.1 is the integer 1:    *)
(* 0 -> 0, 0.1 -> 1, 1 -> 10, 10 -> 100, 100 -> 1000; float("inf") is Inf  *)
(* and -float("inf") is -Inf.  The only arithmetic the source does on      *)
(* scores is comparison, max and multiplication by -1, all of which the    *)
(* scaling preserves.                                                      *)
(***************************************************************************)
EXTENDS Integers, Sequences, FiniteSets, TLC

(***************************************************************************)
(* Bounds of the model.                                                    *)
(***************************************************************************)
\* the boards searched by negamax are Width x Height
Width == 4
Height == 2
\* the boards searched have at most this many empty cells
MaxEmpty == 4
\* difficulty levels 0..MaxLevel; direct negamax calls use depths 0..MaxLevel+1
MaxLevel == 1
\* the boards of the paired negamax runs have at most this many empty cells
PairMaxEmpty == 3
\* the racks constructed on their own: every array of 0, 1, 2 up to
\* SmallWidth x SmallHeight,
SmallWidth == 2
SmallHeight == 2
\* and arrays up to RackMaxWidth x RackMaxHeight
RackMaxWidth == 5
RackMaxHeight == 5
\* that hold at most this many tokens, at any cells
RackMaxTokens == 1

(***************************************************************************)
(* Program constants.                                                      *)
(***************************************************************************)
\* float("inf"), in tenths
Inf == 1000000
\* Python's None, where the source holds None in place of a column
None == -1

players == (1 :> 2) @@ (2 :> 1)

Max(x, y) == IF x >= y THEN x ELSE y

\* len(range(n))
RangeLen(n) == IF n > 0 THEN n ELSE 0

(***************************************************************************)
(* Rack: the array is column-major, array[x][y], x in 0..width-1 and       *)
(* y in 0..height-1, row 0 at the bottom.                                  *)
(***************************************************************************)
RackWidth(array) == Cardinality(DOMAIN array)

RackHeight(array) == Cardinality(DOMAIN array[0])

\* Space(Point(x, y), array[x][y]) for every cell
ArrayToSpaces(array) ==
    [p \in (0 .. RackWidth(array) - 1) \X (0 .. RackHeight(array) - 1) |->
        [location |-> p, value |-> array[p[1]][p[2]]]]

offsets ==
    [horiz |-> <<1, 0>>, vert |-> <<0, 1>>, diag_up |-> <<1, 1>>, diag_down |-> <<1, -1>>]

\* the four spaces from start along direction; a missing space is a KeyError
GetQuartet(spaces, start, direction) ==
    [index \in 1 .. 4 |->
        spaces[<<start[1] + offsets[direction][1] * (index - 1),
                 start[2] + offsets[direction][2] * (index - 1)>>]]

\* the list that "for y in range(y0, ..., dy): for x in range(nx)" appends, the outer
\* range holding ny values
QuartetRows(spaces, ny, nx, y0, dy, direction) ==
    [i \in 1 .. (ny * nx) |->
        GetQuartet(spaces, <<(i - 1) % nx, y0 + dy * ((i - 1) \div nx)>>, direction)]

\* __array_to_quartets__ with the falling diagonals stopping one row early,
\* range(self.height - 1, 3, -1)
ArrayToQuartetsShortDiagonal(array) ==
    LET w == RackWidth(array)
        h == RackHeight(array)
        spaces == ArrayToSpaces(array)
    IN  QuartetRows(spaces, RangeLen(h), RangeLen(w - 3), 0, 1, "horiz")
        \o QuartetRows(spaces, RangeLen(h - 3), RangeLen(w), 0, 1, "vert")
        \o QuartetRows(spaces, RangeLen(h - 4), RangeLen(w - 3), h - 1, -1, "diag_down")
        \o QuartetRows(spaces, RangeLen(h - 3), RangeLen(w - 3), 0, 1, "diag_up")

\* Rack.__array_to_quartets__: rows, columns, falling diagonals, rising diagonals
ArrayToQuartets(array) ==
    LET w == RackWidth(array)
        h == RackHeight(array)
        spaces == ArrayToSpaces(array)
    IN  QuartetRows(spaces, RangeLen(h), RangeLen(w - 3), 0, 1, "horiz")
        \o QuartetRows(spaces, RangeLen(h - 3), RangeLen(w), 0, 1, "vert")
        \o QuartetRows(spaces, RangeLen(h - 3), RangeLen(w - 3), h - 1, -1, "diag_down")
        \o QuartetRows(spaces, RangeLen(h - 3), RangeLen(w - 3), 0, 1, "diag_up")

\* Quartet.__init__: how many of the four spaces hold each of 0, 1, 2
TokenList(quartet) ==
    [t \in 0 .. 2 |-> Cardinality({i \in 1 .. 4 : quartet[i].value = t})]

values == (4 :> Inf) @@ (3 :> 1000) @@ (2 :> 100) @@ (1 :> 10) @@ (0 :> 1)

QuartetValue(quartet, player) ==
    LET tokenList == TokenList(quartet)
    IN  IF tokenList[1] > 0 /\ tokenList[2] > 0
        THEN 0
        ELSE values[tokenList[player]]

RECURSIVE MaxQuartetValue(_, _, _)
MaxQuartetValue(quartets, player, n) ==
    IF n = 0
    THEN -Inf
    ELSE Max(QuartetValue(quartets[n], player), MaxQuartetValue(quartets, player, n - 1))

\* Rack.__get_state_value__
StateValue(array, player) ==
    LET quartets == ArrayToQuartets(array)
    IN  MaxQuartetValue(quartets, player, Len(quartets))

\* Space.is_playable
IsPlayable(space, spaces) ==
    /\ space.value = 0
    /\ LET below == <<space.location[1], space.location[2] - 1>>
       IN  \/ below \notin DOMAIN spaces
           \/ spaces[below].value # 0

\* the inner loop of __get_children__ without its break: the last playable y
FirstEmptyNoBreak(array, x) ==
    LET spaces == ArrayToSpaces(array)
        ys == {y \in 0 .. RackHeight(array) - 1 : IsPlayable(spaces[<<x, y>>], spaces)}
    IN  IF ys = {} THEN None ELSE CHOOSE y \in ys : \A z \in ys : y >= z

\* the y at which the inner loop of __get_children__ breaks in column x, or None
FirstEmpty(array, x) ==
    LET spaces == ArrayToSpaces(array)
        ys == {y \in 0 .. RackHeight(array) - 1 : IsPlayable(spaces[<<x, y>>], spaces)}
    IN  IF ys = {} THEN None ELSE CHOOSE y \in ys : \A z \in ys : y <= z

RECURSIVE ChildrenUpTo(_, _, _)
ChildrenUpTo(array, playerID, n) ==
    IF n = 0
    THEN <<>>
    ELSE LET x == n - 1
             y == FirstEmpty(array, x)
             rest == ChildrenUpTo(array, playerID, n - 1)
         IN  IF y = None
             THEN rest
             ELSE Append(rest,
                         [array |-> [array EXCEPT ![x][y] = playerID],
                          value |-> -Inf,
                          column |-> x])

\* Rack.__get_children__: the new racks, in the order they are appended
GetChildren(array, playerID) == ChildrenUpTo(array, playerID, RackWidth(array))

(***************************************************************************)
(* The inputs.                                                             *)
(***************************************************************************)
\* a column in which no token floats above an empty cell
GravityColumns(h) ==
    {c \in [0 .. h - 1 -> 0 .. 2] : \A y \in 1 .. h - 1 : c[y] # 0 => c[y - 1] # 0}

Empties(array) ==
    Cardinality({p \in (DOMAIN array) \X (DOMAIN array[0]) : array[p[1]][p[2]] = 0})

\* the rectangular, gravity-respecting boards handed to the search
Boards ==
    {b \in [0 .. Width - 1 -> GravityColumns(Height)] : Empties(b) <= MaxEmpty}

(***************************************************************************)
(* The machine.  A Rack object lives in the heap under the path of columns *)
(* played from the root rack to reach it; a frame of negamax names its     *)
(* objects by these paths, as the source's locals hold references.         *)
(***************************************************************************)
VARIABLES
    array,              \* the board handed to pick_move / wrapped by the root Rack
    playerID,           \* ComputerPlayer.playerID, the player to move at the root
    difficulty_level,   \* ComputerPlayer.difficulty_level
    call,               \* the direct negamax calls to make: depth, pruning flags, fixed orders
    phase,              \* "idle", "searching", "returned", "IndexError"
    heap,               \* path |-> [array, value, column], the live Rack objects
    stack,              \* the frames of negamax, outermost first
    ret,                \* the Rack the last finished negamax call returned
    result,             \* what pick_move returned
    orders,             \* path |-> the order a recorded shuffle gave that node's children
    runValues,          \* the values carried by the racks the finished direct calls returned
    rack,               \* a Rack constructed on its own, with its spaces and quartets
    offspring           \* the list rack.__get_children__ returned

vars ==
    <<array, playerID, difficulty_level, call, phase, heap, stack, ret, result, orders,
      runValues, rack, offspring>>

inputs == <<array, playerID, difficulty_level, call>>

rackVars == <<rack, offspring>>

\* no Rack
NoPath == <<None>>

\* Rack.__init__
Rack(a) == [array |-> a, value |-> -Inf, column |-> None]

Frame(self, player, depth, a, b, pruningEnabled) ==
    [self |-> self, player |-> player, depth |-> depth, a |-> a, b |-> b,
     pruningEnabled |-> pruningEnabled, children |-> <<>>, i |-> 0, best |-> NoPath,
     pc |-> "enter"]

Top == stack[Len(stack)]

Callers == SubSeq(stack, 1, Len(stack) - 1)

Range(s) == {s[i] : i \in DOMAIN s}

\* the objects some frame or the returned reference still holds
Live(stk, r) ==
    UNION {{f.self, f.best} \cup Range(f.children) : f \in Range(stk)} \cup {r}

\* the heap once the objects nothing refers to are freed
Collect(h, stk, r) == [p \in DOMAIN h \cap Live(stk, r) |-> h[p]]

\* the caller resumes after its call of child.negamax (line 181) returned
Resume(stk) ==
    IF stk = <<>> THEN stk ELSE [stk EXCEPT ![Len(stk)].pc = "compare"]

\* every order random.shuffle can leave a list in
Shuffles(list) ==
    LET n == Len(list)
    IN  {[i \in 1 .. n |-> list[f[i]]] :
            f \in {g \in [1 .. n -> 1 .. n] : \A i, j \in 1 .. n : i # j => g[i] # g[j]}}

\* the orders the shuffle at the node self can give: the recorded one, if any
ShuffleOrders(self, list) ==
    IF self \in DOMAIN orders THEN {orders[self]} ELSE Shuffles(list)

\* line 166 without its test for a winning state
IsCutoffDepthOnly(depth, value) == depth = 0

\* line 166
IsCutoff(depth, value) == depth = 0 \/ value = Inf

\* line 184
IsBetter(bestValue, bestChildValue) == bestValue > bestChildValue

Idle ==
    /\ playerID \in {1, 2}
    /\ phase = "idle"
    /\ heap = <<>>
    /\ stack = <<>>
    /\ ret = NoPath
    /\ result = None
    /\ orders = <<>>
    /\ runValues = <<>>
    /\ rack = <<>>
    /\ offspring = <<>>

Init ==
    /\ Idle
    /\ array \in Boards
    /\ difficulty_level \in 0 .. MaxLevel
    /\ call = [depth |-> difficulty_level + 1, pruning |-> <<TRUE>>, fixed |-> FALSE]

\* pick_move searching difficulty_level plies, without the increment of line 263
PickMoveNoIncrement ==
    /\ phase = "idle"
    /\ phase' = "searching"
    /\ heap' = (<<>> :> Rack(array))
    /\ stack' = <<Frame(<<>>, playerID, difficulty_level, -Inf, Inf, TRUE)>>
    /\ UNCHANGED <<inputs, rackVars, ret, result, orders, runValues>>

\* pick_move, lines 259-263: wrap the array and call negamax on the root rack
PickMove ==
    /\ phase = "idle"
    /\ phase' = "searching"
    /\ heap' = (<<>> :> Rack(array))
    /\ stack' = <<Frame(<<>>, playerID, difficulty_level + 1, -Inf, Inf, TRUE)>>
    /\ UNCHANGED <<inputs, rackVars, ret, result, orders, runValues>>

\* negamax, lines 165-167: evaluate for the last player and return self
NegamaxCutoff ==
    /\ phase = "searching" /\ stack # <<>> /\ Top.pc = "enter"
    /\ LET value == StateValue(heap[Top.self].array, players[Top.player])
       IN  /\ IsCutoff(Top.depth, value)
           /\ stack' = Resume(Callers)
           /\ ret' = Top.self
           /\ heap' = Collect([heap EXCEPT ![Top.self].value = value], stack', ret')
    /\ UNCHANGED <<inputs, rackVars, phase, result, orders, runValues>>

\* negamax, lines 165-176: evaluate, generate the children, shuffle, take the first
NegamaxExpand ==
    /\ phase = "searching" /\ stack # <<>> /\ Top.pc = "enter"
    /\ LET self == Top.self
           value == StateValue(heap[self].array, players[Top.player])
           children == GetChildren(heap[self].array, Top.player)
           paths == [k \in DOMAIN children |-> Append(self, children[k].column)]
       IN  /\ ~IsCutoff(Top.depth, value)
           /\ children # <<>>
           /\ \E shuffled \in ShuffleOrders(self, paths) :
                /\ stack' = [stack EXCEPT ![Len(stack)].children = shuffled,
                                          ![Len(stack)].best = shuffled[1],
                                          ![Len(stack)].i = 1,
                                          ![Len(stack)].pc = "loop"]
                /\ orders' = IF call.fixed THEN (self :> shuffled) @@ orders ELSE orders
           /\ heap' = [p \in DOMAIN heap \cup Range(paths) |->
                         IF p = self THEN [heap[self] EXCEPT !.value = value]
                         ELSE IF p \in DOMAIN heap THEN heap[p]
                         ELSE children[CHOOSE k \in DOMAIN children : paths[k] = p]]
    /\ UNCHANGED <<inputs, rackVars, phase, ret, result, runValues>>

\* negamax, lines 165-176 when no column is playable: children[0] raises IndexError,
\* which nothing catches
NegamaxIndexError ==
    /\ phase = "searching" /\ stack # <<>> /\ Top.pc = "enter"
    /\ LET value == StateValue(heap[Top.self].array, players[Top.player])
       IN  /\ ~IsCutoff(Top.depth, value)
           /\ GetChildren(heap[Top.self].array, Top.player) = <<>>
    /\ phase' = "IndexError"
    /\ stack' = <<>>
    /\ heap' = <<>>
    /\ ret' = NoPath
    /\ UNCHANGED <<inputs, rackVars, result, orders, runValues>>

\* negamax, lines 179-181: the next child searches, for the other player
NegamaxRecurse ==
    /\ phase = "searching" /\ stack # <<>> /\ Top.pc = "loop"
    /\ Top.i <= Len(Top.children)
    /\ stack' = Append([stack EXCEPT ![Len(stack)].pc = "call"],
                       Frame(Top.children[Top.i], players[Top.player], Top.depth - 1,
                             -Top.b, -Top.a, Top.pruningEnabled))
    /\ UNCHANGED <<inputs, rackVars, phase, heap, ret, result,
                   orders, runValues>>

\* negamax, lines 184-191: keep the better rack, raise alpha, break on a >= b
NegamaxCompare ==
    /\ phase = "searching" /\ stack # <<>> /\ Top.pc = "compare"
    /\ LET bestChild == ret
           best == IF IsBetter(heap[Top.best].value, heap[bestChild].value)
                   THEN bestChild ELSE Top.best
           a == IF Top.pruningEnabled THEN Max(Top.a, heap[best].value) ELSE Top.a
           break == Top.pruningEnabled /\ a >= Top.b
       IN  /\ stack' = [stack EXCEPT ![Len(stack)].best = best,
                                     ![Len(stack)].a = a,
                                     ![Len(stack)].i = Top.i + 1,
                                     ![Len(stack)].pc = IF break THEN "exit" ELSE "loop"]
           /\ ret' = NoPath
           /\ heap' = Collect(heap, stack', ret')
    /\ UNCHANGED <<inputs, rackVars, phase, result, orders, runValues>>

\* negamax, lines 194-195: negate the best rack's value and return the rack
NegamaxReturnBest ==
    /\ phase = "searching" /\ stack # <<>>
    /\ \/ Top.pc = "exit"
       \/ Top.pc = "loop" /\ Top.i > Len(Top.children)
    /\ stack' = Resume(Callers)
    /\ ret' = Top.best
    /\ heap' = Collect([heap EXCEPT ![Top.best].value = -1 * heap[Top.best].value],
                       stack', ret')
    /\ UNCHANGED <<inputs, rackVars, phase, result, orders, runValues>>

\* pick_move, lines 263-265: the column of the rack negamax returned
PickMoveReturn ==
    /\ phase = "searching" /\ stack = <<>>
    /\ phase' = "returned"
    /\ result' = heap[ret].column
    /\ UNCHANGED <<inputs, rackVars, heap, stack, ret, orders,
                   runValues>>

Next ==
    \/ PickMove
    \/ NegamaxCutoff
    \/ NegamaxExpand
    \/ NegamaxIndexError
    \/ NegamaxRecurse
    \/ NegamaxCompare
    \/ NegamaxReturnBest
    \/ PickMoveReturn

Spec == Init /\ [][Next]_vars

(***************************************************************************)
(* Rack.negamax called directly, twice on the same rack array, for the     *)
(* same player and depth, from the bounds (-inf, +inf).  With call.fixed   *)
(* the order each shuffle gives is recorded for its node and the later run *)
(* replays it there; otherwise every shuffle of both runs is free.         *)
(***************************************************************************)
PairBoards ==
    {b \in [0 .. Width - 1 -> GravityColumns(Height)] : Empties(b) <= PairMaxEmpty}

\* pruned then unpruned under the same orders; or the same setting twice, orders free
PairCalls ==
    {[depth |-> d, pruning |-> pf[1], fixed |-> pf[2]] :
        d \in 0 .. MaxLevel + 1,
        pf \in {<<<<TRUE, FALSE>>, TRUE>>, <<<<TRUE, TRUE>>, FALSE>>,
                <<<<FALSE, FALSE>>, FALSE>>}}

InitPair ==
    /\ Idle
    /\ array \in PairBoards
    /\ difficulty_level = 0
    /\ call \in PairCalls

\* Rack(array).negamax(playerID, depth, -inf, +inf, pruningEnabled)
CallNegamax ==
    /\ phase = "idle"
    /\ Len(runValues) < Len(call.pruning)
    /\ phase' = "searching"
    /\ heap' = (<<>> :> Rack(array))
    /\ stack' = <<Frame(<<>>, playerID, call.depth, -Inf, Inf,
                        call.pruning[Len(runValues) + 1])>>
    /\ UNCHANGED <<inputs, rackVars, ret, result, orders, runValues>>

\* the direct call returned a rack: note the value it carries
NegamaxReturned ==
    /\ phase = "searching" /\ stack = <<>>
    /\ runValues' = Append(runValues, heap[ret].value)
    /\ phase' = "idle"
    /\ heap' = <<>>
    /\ ret' = NoPath
    /\ UNCHANGED <<inputs, rackVars, stack, result, orders>>

NextPair ==
    \/ CallNegamax
    \/ NegamaxCutoff
    \/ NegamaxExpand
    \/ NegamaxIndexError
    \/ NegamaxRecurse
    \/ NegamaxCompare
    \/ NegamaxReturnBest
    \/ NegamaxReturned

SpecPair == InitPair /\ [][NextPair]_vars

(***************************************************************************)
(* A Rack constructed on its own and asked for its children.               *)
(***************************************************************************)
\* every w x h array of 0, 1, 2
AllArrays(w, h) == [0 .. w - 1 -> [0 .. h - 1 -> 0 .. 2]]

\* the w x h arrays holding at most n tokens, at any cells
RECURSIVE SparseArrays(_, _, _)
SparseArrays(w, h, n) ==
    IF n = 0
    THEN {[x \in 0 .. w - 1 |-> [y \in 0 .. h - 1 |-> 0]]}
    ELSE {[a EXCEPT ![cv[1]][cv[2]] = cv[3]] :
            a \in SparseArrays(w, h, n - 1),
            cv \in (0 .. w - 1) \X (0 .. h - 1) \X (0 .. 2)}

RackArrays ==
    UNION {AllArrays(d[1], d[2]) : d \in (1 .. SmallWidth) \X (1 .. SmallHeight)}
    \cup UNION {SparseArrays(d[1], d[2], RackMaxTokens) :
                  d \in (1 .. RackMaxWidth) \X (1 .. RackMaxHeight)}

InitRack ==
    /\ Idle
    /\ playerID = 1
    /\ array \in RackArrays
    /\ difficulty_level = 0
    /\ call = [depth |-> 0, pruning |-> <<>>, fixed |-> FALSE]

\* Rack.__init__, lines 45-52
Construct ==
    /\ phase = "idle"
    /\ rack' = [array |-> array,
                height |-> RackHeight(array),
                width |-> RackWidth(array),
                spaces |-> ArrayToSpaces(array),
                quartets |-> ArrayToQuartets(array),
                value |-> -Inf,
                column |-> None]
    /\ phase' = "constructed"
    /\ UNCHANGED <<inputs, heap, stack, ret, result, orders, runValues, offspring>>

\* rack.__get_children__(playerID), for either player
CallGetChildren ==
    /\ phase = "constructed"
    /\ \E p \in {1, 2} :
         /\ playerID' = p
         /\ offspring' = GetChildren(rack.array, p)
    /\ phase' = "children"
    /\ UNCHANGED <<array, difficulty_level, call, heap, stack, ret, result, orders,
                   runValues, rack>>

NextRack ==
    \/ Construct
    \/ CallGetChildren

SpecRack == InitRack /\ [][NextRack]_vars

(***************************************************************************)
(* The terms of the properties, stated on the board itself and not through *)
(* the rack's spaces and quartets.                                         *)
(***************************************************************************)
Directions == {<<1, 0>>, <<0, 1>>, <<1, 1>>, <<1, -1>>}

\* the cells of the run of 4 from start along d
RunCells(start, d) == {<<start[1] + d[1] * k, start[2] + d[2] * k>> : k \in 0 .. 3}

Cells(a) == (DOMAIN a) \X (DOMAIN a[0])

\* every run of 4 adjacent collinear cells inside the board
Runs(a) ==
    {RunCells(start, d) : <<start, d>> \in
        {sd \in Cells(a) \X Directions : RunCells(sd[1], sd[2]) \subseteq Cells(a)}}

FourInRow(a, p) == \E run \in Runs(a) : \A c \in run : a[c[1]][c[2]] = p

NoFourInRow(a) == ~FourInRow(a, 1) /\ ~FourInRow(a, 2)

HasRoom(a, x) == \E y \in DOMAIN a[x] : a[x][y] = 0

LowestEmpty(a, x) == CHOOSE y \in DOMAIN a[x] : a[x][y] = 0 /\ \A z \in DOMAIN a[x] : a[x][z] = 0 => y <= z

\* the board after p drops a token in column x
Drop(a, x, p) == [a EXCEPT ![x][LowestEmpty(a, x)] = p]

\* the columns in which p completes four in a row at once
WinningColumns(a, p) == {x \in DOMAIN a : HasRoom(a, x) /\ FourInRow(Drop(a, x, p), p)}

\* p has three tokens in a horizontal run whose fourth cell is empty and playable
ThreeWithOpenFourth(a, p) ==
    \E start \in Cells(a) :
        LET run == RunCells(start, <<1, 0>>)
        IN  /\ run \subseteq Cells(a)
            /\ \E open \in run :
                 /\ a[open[1]][open[2]] = 0
                 /\ LowestEmpty(a, open[1]) = open[2]
                 /\ \A c \in run \ {open} : a[c[1]][c[2]] = p

Returned == phase = "returned"

(***************************************************************************)
(* C1: on a board with no completed four in which the player to move has   *)
(* three in a horizontal line with the fourth cell empty and playable,     *)
(* pick_move returns a column whose move completes four in a row for that  *)
(* player, at every difficulty level and for every shuffle order.          *)
(***************************************************************************)
C1_TakesTheWin ==
    (Returned /\ NoFourInRow(array) /\ ThreeWithOpenFourth(array, playerID))
        => result \in WinningColumns(array, playerID)

(***************************************************************************)
(* C2: at difficulty level 1, on a board with no completed four where the  *)
(* player to move cannot win at once and the opponent has exactly one      *)
(* winning column, pick_move returns that column, for every shuffle order. *)
(***************************************************************************)
C2_BlocksTheThreat ==
    (/\ Returned
     /\ difficulty_level = 1
     /\ NoFourInRow(array)
     /\ WinningColumns(array, playerID) = {}
     /\ Cardinality(WinningColumns(array, players[playerID])) = 1)
        => result \in WinningColumns(array, players[playerID])

(***************************************************************************)
(* C3: whenever pick_move returns on a board with a non-full column and no *)
(* completed four, the result is a column index 0 <= c < width (never      *)
(* None) and column c has an empty cell in the input board.                *)
(***************************************************************************)
C3_ReturnsLegalColumn ==
    (Returned /\ NoFourInRow(array) /\ \E x \in DOMAIN array : HasRoom(array, x))
        => /\ result # None
           /\ result \in 0 .. Width - 1
           /\ HasRoom(array, result)

\* pick_move returned, from a two-ply search, on a board with a full column
C3_Witness ==
    /\ Returned
    /\ NoFourInRow(array)
    /\ difficulty_level = 1
    /\ Len(ret) = 2
    /\ \E x \in DOMAIN array : ~HasRoom(array, x)
    /\ HasRoom(array, result)

(***************************************************************************)
(* C4: the column pick_move returns is the column of the direct child of   *)
(* the root that produced the returned rack, not the column of a move made *)
(* deeper in the tree.                                                     *)
(***************************************************************************)
C4_ColumnOfRootChild ==
    (Returned /\ NoFourInRow(array) /\ \E x \in DOMAIN array : HasRoom(array, x))
        => /\ Len(ret) >= 1
           /\ result = ret[1]

(***************************************************************************)
(* C7: a negamax call on a board that holds four in a row for either       *)
(* player, the one to move or the opponent, returns at once: no frame ever *)
(* holds children generated from such a board.                             *)
(***************************************************************************)
C7_NoExpansionOfWonBoard ==
    \A k \in DOMAIN stack :
        stack[k].pc # "enter" => NoFourInRow(heap[stack[k].self].array)

(***************************************************************************)
(* C7 as amended: a negamax call on a board that holds four in a row for   *)
(* the opponent of the player to move (the player who moved last) returns  *)
(* at once, at every depth: no frame holds children generated from it.     *)
(***************************************************************************)
C7_NoExpansionAfterLastPlayerWon ==
    \A k \in DOMAIN stack :
        stack[k].pc # "enter"
            => ~FourInRow(heap[stack[k].self].array, players[stack[k].player])

\* a call with plies left to search returned its own rack, won by the last player
C7_Witness ==
    /\ phase = "searching" /\ stack # <<>>
    /\ Top.pc = "compare"
    /\ Top.depth >= 2
    /\ ret = Append(Top.self, heap[ret].column)
    /\ FourInRow(heap[ret].array, Top.player)
    /\ heap[ret].value = Inf

(***************************************************************************)
(* C8: on a board with a non-full column and no completed four, no negamax *)
(* call made during pick_move fails: no node, a full one included, takes   *)
(* the first element of an empty list of children.                         *)
(***************************************************************************)
C8_NoIndexError ==
    (NoFourInRow(array) /\ \E x \in DOMAIN array : HasRoom(array, x))
        => phase # "IndexError"

(***************************************************************************)
(* C5: for a fixed ordering of the children at each node, the value of the *)
(* rack negamax returns with pruning enabled from (-inf, +inf) equals the  *)
(* value of the rack it returns with pruning disabled.                     *)
(***************************************************************************)
C5_PruningKeepsValue ==
    (phase = "idle" /\ Len(runValues) = 2 /\ call.fixed)
        => runValues[1] = runValues[2]

(***************************************************************************)
(* C6: under either pruning setting the value of the rack negamax returns  *)
(* is the same for every ordering the shuffles can give.                   *)
(***************************************************************************)
C6_OrderKeepsValue ==
    (phase = "idle" /\ Len(runValues) = 2 /\ ~call.fixed)
        => runValues[1] = runValues[2]

(***************************************************************************)
(* C9: __get_children__ returns exactly one child per column that has an   *)
(* empty cell and none for a full column, in ascending column order; each  *)
(* child's grid is the parent's with the player's token in the lowest      *)
(* empty cell of its column, and its column tag is that column.            *)
(***************************************************************************)
C9_ChildrenAreTheLegalDrops ==
    phase = "children" =>
        /\ {offspring[k].column : k \in DOMAIN offspring}
             = {x \in DOMAIN array : HasRoom(array, x)}
        /\ \A j, k \in DOMAIN offspring : j < k => offspring[j].column < offspring[k].column
        /\ \A k \in DOMAIN offspring :
             offspring[k].array = Drop(array, offspring[k].column, playerID)

\* children were generated from a rack with a full column, a playable column and a
\* token floating over an empty cell
C9_Witness ==
    /\ phase = "children"
    /\ offspring # <<>>
    /\ \E x \in DOMAIN array : ~HasRoom(array, x)
    /\ \E x \in DOMAIN array : \E y \in DOMAIN array[x] :
         y > 0 /\ array[x][y] # 0 /\ array[x][y - 1] = 0

\* the cells a quartet holds
QuartetCells(quartet) == {quartet[i].location : i \in DOMAIN quartet}

(***************************************************************************)
(* C10: the quartets of a constructed W x H rack are the runs of 4         *)
(* adjacent collinear in-bounds cells, each exactly once and nothing else: *)
(* every quartet has exactly 4 cells, all inside the grid.                 *)
(***************************************************************************)
C10_QuartetsAreTheRuns ==
    phase = "constructed" =>
        LET quartets == rack.quartets
            cells == [k \in DOMAIN quartets |-> QuartetCells(quartets[k])]
            runs == Runs(array)
        IN  /\ \A k \in DOMAIN quartets :
                 /\ Len(quartets[k]) = 4
                 /\ Cardinality(cells[k]) = 4
                 /\ cells[k] \subseteq Cells(array)
                 /\ cells[k] \in runs
                 /\ \A i \in 1 .. 4 :
                      LET c == quartets[k][i].location
                      IN  quartets[k][i].value = array[c[1]][c[2]]
            /\ \A run \in runs : Cardinality({k \in DOMAIN quartets : cells[k] = run}) = 1

\* a rack wider and taller than 4 was constructed, so runs of all four directions
\* exist away from and at the boundary
C10_Witness ==
    /\ phase = "constructed"
    /\ rack.width > 4 /\ rack.height > 4
    /\ Len(rack.quartets) = Cardinality(Runs(array))
    /\ \E k \in DOMAIN rack.quartets :
         QuartetCells(rack.quartets[k])
           = {<<rack.width - 4, rack.height - 1>>, <<rack.width - 3, rack.height - 2>>,
              <<rack.width - 2, rack.height - 3>>, <<rack.width - 1, rack.height - 4>>}

====
